---- MODULE Spec2Model ----
(***************************************************************************)
(* faterunner: the option-layering model (Opts) and the dependency-aware   *)
(* execution engine (Manager / Task / Action) of src/faterunner/__init__.py *)
(* as a state machine.  One Manager is built with add() and driven with    *)
(* run(); Manager._run is unfolded into an explicit call stack so that the *)
(* order of its effects is visible.                                        *)
(***************************************************************************)
EXTENDS Integers, Sequences, FiniteSets, TLC

(***************************************************************************)
(* Opts: four tri-state fields (None / True / False).                      *)
(***************************************************************************)
Unset == "None"
Tri == {"None", "True", "False"}
OptsFields == {"silent", "ignore_err", "keep_going", "dry"}

Opts(s, i, k, d) == [silent |-> s, ignore_err |-> i, keep_going |-> k, dry |-> d]
AllOpts == [silent : Tri, ignore_err : Tri, keep_going : Tri, dry : Tri]

\* An optional argument (`Opts | None`): <<>> is None, <<o>> is the value o.
NoneArg == <<>>
Some(x) == <<x>>

\* Python truthiness of a tri-state field: None and False are falsy.
Truthy(v) == v = "True"

\* A plausible slip in __or__: the None filter is dropped, so every field of
\* the right operand, set or not, replaces the left one's.
OrNoFilter(self, other) ==
    IF other = NoneArg THEN self ELSE other[1]

\* Opts.__or__: a new Opts; the right operand's fields that are not None
\* replace the left operand's.
Or(self, other) ==
    IF other = NoneArg
    THEN [f \in DOMAIN self |-> self[f]]
    ELSE LET update == [f \in {g \in DOMAIN other[1] : other[1][g] # Unset} |-> other[1][f]]
         IN  [f \in DOMAIN self |-> IF f \in DOMAIN update THEN update[f] ELSE self[f]]

(***************************************************************************)
(* Dictionaries (self.tasks, self.deps) are functions with a growing       *)
(* domain.                                                                 *)
(***************************************************************************)
EmptyDict == <<>>
Put(m, k, v) == [x \in (DOMAIN m) \cup {k} |-> IF x = k THEN v ELSE m[x]]
Get(m, k, default) == IF k \in DOMAIN m THEN m[k] ELSE default

\* The elements of a sequence.
Range(s) == {s[j] : j \in DOMAIN s}
\* The subsequence of s whose elements satisfy membership in S (a list
\* comprehension `[x for x in s if x in S]`).
RECURSIVE Filter(_, _)
Filter(s, S) ==
    IF s = <<>> THEN <<>>
    ELSE (IF Head(s) \in S THEN <<Head(s)>> ELSE <<>>) \o Filter(Tail(s), S)

(***************************************************************************)
(* Bounds and input sets.                                                  *)
(***************************************************************************)
Names == {"A", "B", "C"}
MaxDeps == 2
MaxActions == 2

\* An Action owns a description (get_name) and its default Opts; a Task owns
\* a sequence of Actions and its default Opts.
Action(name, o) == [name |-> name, opts |-> o]
Task(actions, o) == [opts |-> o, actions |-> actions]

NoOpts == Opts(Unset, Unset, Unset, Unset)

\* Dependency lists: every list of at most MaxDeps names (repetitions and
\* the task's own name included).
DepsChoices == UNION {[1..n -> Names] : n \in 0..MaxDeps}

\* Tasks as the parser's list form builds them: commands with all options
\* left at their defaults.
PlainTasks == {Task(<<Action("cmd", NoOpts)>>, NoOpts)}
\* Manager-level and call-level opts of the dependency runs: keep_going
\* unset, set by the manager alone, set by the call alone, and set by both
\* with the call overriding the manager.
ManagerOptsChoices == {NoOpts, Opts(Unset, Unset, "False", Unset)}
CallOptsChoices == {NoneArg, Some(Opts(Unset, Unset, "True", Unset))}
\* What an action's underlying work does when it is executed.
Outcomes == {"ok", "fail"}

\* Inputs of the option-layering runs: two names, B alone or as A's (or its
\* own) dependency, tasks of 1..MaxActions actions, and ignore_err,
\* keep_going and dry set at the four layers so that every layer both sets
\* a value and has one overridden.
LayerNames == {"A", "B"}
LayerDeps == {<<>>, <<"B">>}
ActionOptsChoices == {NoOpts, Opts(Unset, "True", Unset, Unset)}
TaskOptsChoices == {NoOpts, Opts(Unset, "False", Unset, Unset)}
LayerTasks ==
    {Task(as, o) : as \in UNION {[1..n -> {Action("cmd", ao) : ao \in ActionOptsChoices}]
                                   : n \in 1..MaxActions},
                   o \in TaskOptsChoices}
LayerManagerOpts ==
    {NoOpts, Opts(Unset, "False", Unset, Unset), Opts(Unset, Unset, "True", Unset)}
LayerCallOpts ==
    {NoneArg, Some(Opts(Unset, "True", Unset, Unset)), Some(Opts(Unset, Unset, "True", Unset)),
     Some(Opts(Unset, Unset, Unset, "True"))}

\* Inputs of the repeated runs: two names, each alone or depending on one of
\* the two, a task with every option unset or with dry set to False by the
\* task and by its action, and calls with and without dry and keep_going.
RunsDeps == {<<>>, <<"A">>, <<"B">>}
RunsTasks ==
    {Task(<<Action("cmd", NoOpts)>>, NoOpts),
     Task(<<Action("cmd", Opts(Unset, Unset, Unset, "False"))>>, Opts(Unset, Unset, Unset, "False"))}
RunsManagerOpts == {NoOpts, Opts(Unset, Unset, Unset, "False")}
RunsCallOpts ==
    {NoneArg, Some(Opts(Unset, Unset, Unset, "True")), Some(Opts(Unset, Unset, "True", Unset)),
     Some(Opts(Unset, Unset, "True", "True"))}

\* Inputs of the merge runs: every Opts at the manager and at the call, and
\* at the task and its action the three Opts with all fields alike; Opts
\* merge field by field, so each field sees every assignment of the layers.
UniformOpts == {Opts(x, x, x, x) : x \in Tri}
AllOptsArgs == {NoneArg} \cup {Some(o) : o \in AllOpts}

(***************************************************************************)
(* State.                                                                  *)
(***************************************************************************)
VARIABLES
    tasks,        \* Manager.tasks: name -> Task
    deps,         \* Manager.deps: name -> list of names
    self_opts,    \* Manager.opts
    phase,        \* "idle" | "running" | "done": where Manager.run is
    target,       \* the name argument of the Manager.run call in progress
    call_opts,    \* the opts argument of the Manager.run call in progress
    run_opts,     \* Manager.run's merged opts, threaded through _run
    stack,        \* the _run activations, innermost last
    already_run,  \* _run's already_run set
    failed,       \* _run's failed set
    exceptions,   \* _run's exceptions set
    raising,      \* the exception propagating out of _run, if any
    result,       \* how the last Manager.run ended
    order,        \* history: names in the order their Task.run started
    succeeded,    \* history: names whose Task.run returned normally
    log,          \* history: logger.info(get_name()) of every Action.run
    work,         \* history: underlying work executed (Action._run calls)
    reported,     \* history: logger.error(err) of the except handler
    errCount,     \* history: exceptions constructed so far in this run
    last_call     \* history: the previous call on the manager, as its caller noted it

config == <<tasks, deps, self_opts>>
session == <<target, call_opts, run_opts, stack, already_run, failed, exceptions, raising, result>>
history == <<order, succeeded, log, work, reported, errCount>>
vars == <<tasks, deps, self_opts, phase, target, call_opts, run_opts, stack, already_run,
          failed, exceptions, raising, result, order, succeeded, log, work,
          reported, errCount, last_call>>

\* How Manager.run ended: the exception of _run passed through (direct),
\* the RuntimeError of line 176 with the collected exceptions as its args,
\* or a normal return; cls is the class of what was raised.
NoResult == [status |-> "none", direct |-> <<>>, args |-> {}, cls |-> ""]

\* What a caller keeps of its previous call: nothing, the arguments of an
\* add, or what it saw of a finished run and the sets that run ended with.
NoCall == [op |-> "none"]
AddCall(name, task, depsArg) == [name |-> name, deps |-> depsArg, op |-> "add", task |-> task]
RunCall ==
    [target |-> target, call_opts |-> call_opts, already_run |-> already_run,
     failed |-> failed, exceptions |-> exceptions, result |-> result, order |-> order,
     log |-> log, work |-> work, op |-> "run"]

\* Nothing of a run is kept between Manager.run calls: its sets are locals.
FreshSession ==
    /\ target = ""
    /\ call_opts = NoneArg
    /\ run_opts = NoOpts
    /\ stack = <<>>
    /\ already_run = {}
    /\ failed = {}
    /\ exceptions = {}
    /\ raising = <<>>
    /\ result = NoResult
    /\ order = <<>>
    /\ succeeded = {}
    /\ log = <<>>
    /\ work = <<>>
    /\ reported = <<>>
    /\ errCount = 0
    /\ last_call = NoCall

\* Manager.__init__ with no tasks and the given opts.
Init ==
    /\ tasks = EmptyDict
    /\ deps = EmptyDict
    /\ self_opts \in ManagerOptsChoices
    /\ phase = "idle"
    /\ FreshSession

(***************************************************************************)
(* Exceptions.  Python exceptions hash by identity, so every raise builds  *)
(* a value of its own: id numbers them in the order they are built.        *)
(***************************************************************************)
Err(id, cls, msg, task, ds, a) ==
    [deps |-> ds, cls |-> cls, task |-> task, id |-> id, msg |-> msg, action |-> a]

\* One _run activation: its name argument and where it stands.
\*   "enter"  lines 186-194    "deps"  lines 196-201    "try"  lines 203-223
\*   "task"   inside Task.run (line 224)    "except"  lines 229-234
Frame(name) ==
    [name |-> name, opts |-> NoOpts, pc |-> "enter", dep_ix |-> 1, act_ix |-> 1, err |-> <<>>]

Top == stack[Len(stack)]
Pop == SubSeq(stack, 1, Len(stack) - 1)
SetTop(f) == [stack EXCEPT ![Len(stack)] = f]
Running == phase = "running" /\ stack # <<>> /\ raising = <<>>
DepsOf(name) == Get(deps, name, <<>>)

(***************************************************************************)
(* Manager.add and Manager.run.                                            *)
(***************************************************************************)
ResetSession ==
    /\ target' = ""
    /\ call_opts' = NoneArg
    /\ run_opts' = NoOpts
    /\ stack' = <<>>
    /\ already_run' = {}
    /\ failed' = {}
    /\ exceptions' = {}
    /\ raising' = <<>>
    /\ result' = NoResult
    /\ order' = <<>>
    /\ succeeded' = {}
    /\ log' = <<>>
    /\ work' = <<>>
    /\ reported' = <<>>
    /\ errCount' = 0

\* A plausible slip: add writes the dependency list only when one is given,
\* so an add without deps keeps the list of an earlier add.
addKeepDeps(name, task, depsArg) ==
    /\ phase = "idle"
    /\ tasks' = Put(tasks, name, task)
    /\ deps' = IF depsArg = NoneArg /\ name \in DOMAIN deps THEN deps
               ELSE Put(deps, name, IF depsArg = NoneArg THEN <<>> ELSE depsArg[1])
    /\ phase' = "idle"
    /\ ResetSession
    /\ last_call' = AddCall(name, task, depsArg)
    /\ UNCHANGED self_opts

\* Manager.add(name, task, deps): deps is optional and defaults to [].
add(name, task, depsArg) ==
    /\ phase = "idle"
    /\ tasks' = Put(tasks, name, task)
    /\ deps' = Put(deps, name, IF depsArg = NoneArg THEN <<>> ELSE depsArg[1])
    /\ phase' = "idle"
    /\ ResetSession
    /\ last_call' = AddCall(name, task, depsArg)
    /\ UNCHANGED self_opts

\* A plausible slip: the sets of _run outlive the call (kept on the manager,
\* or mutable default arguments), so a run starts with what the run before
\* it left.
runStale(name, optsArg) ==
    /\ phase = "idle"
    /\ phase' = "running"
    /\ target' = name
    /\ call_opts' = optsArg
    /\ run_opts' = Or(self_opts, optsArg)
    /\ stack' = <<Frame(name)>>
    /\ already_run' = IF last_call.op = "run" THEN last_call.already_run ELSE {}
    /\ failed' = IF last_call.op = "run" THEN last_call.failed ELSE {}
    /\ exceptions' = IF last_call.op = "run" THEN last_call.exceptions ELSE {}
    /\ raising' = <<>>
    /\ result' = NoResult
    /\ order' = <<>>
    /\ succeeded' = {}
    /\ log' = <<>>
    /\ work' = <<>>
    /\ reported' = <<>>
    /\ errCount' = 0
    /\ last_call' = IF last_call.op = "run" THEN last_call ELSE NoCall
    /\ UNCHANGED config

\* manager.deps[name] = deps: a write to the manager's dependency map that
\* does not go through add, as the parser makes after its add; the map is
\* a plain attribute and nothing ties the name to a registered task.
SetDeps(name, d) ==
    /\ phase = "idle"
    /\ deps' = Put(deps, name, d)
    /\ phase' = "idle"
    /\ ResetSession
    /\ last_call' = NoCall
    /\ UNCHANGED <<tasks, self_opts>>

\* Manager.run(name, opts), lines 170-174: merge the call's opts over the
\* manager's and enter _run with fresh already_run, failed and exceptions.
run(name, optsArg) ==
    /\ phase = "idle"
    /\ phase' = "running"
    /\ target' = name
    /\ call_opts' = optsArg
    /\ run_opts' = Or(self_opts, optsArg)
    /\ stack' = <<Frame(name)>>
    /\ already_run' = {}
    /\ failed' = {}
    /\ exceptions' = {}
    /\ raising' = <<>>
    /\ result' = NoResult
    /\ order' = <<>>
    /\ succeeded' = {}
    /\ log' = <<>>
    /\ work' = <<>>
    /\ reported' = <<>>
    /\ errCount' = 0
    /\ last_call' = IF last_call.op = "run" THEN last_call ELSE NoCall
    /\ UNCHANGED config

(***************************************************************************)
(* Manager._run, one activation at a time.                                 *)
(***************************************************************************)
\* A plausible slip: the dedupe test of line 190 is missing, so a name
\* requested again is resolved again.
EnterNoDedupe ==
    /\ Running
    /\ Top.pc = "enter"
    /\ already_run' = already_run \cup {Top.name}
    /\ stack' = SetTop([Top EXCEPT !.pc = "deps"])
    /\ UNCHANGED <<config, last_call, phase, target, call_opts, run_opts, failed, exceptions,
                   raising, result, history>>

\* Lines 190-194: a name already in already_run returns at once; otherwise
\* it is added before anything else happens.
Enter ==
    /\ Running
    /\ Top.pc = "enter"
    /\ IF Top.name \in already_run
       THEN /\ stack' = Pop
            /\ UNCHANGED already_run
       ELSE /\ already_run' = already_run \cup {Top.name}
            /\ stack' = SetTop([Top EXCEPT !.pc = "deps"])
    /\ UNCHANGED <<config, last_call, phase, target, call_opts, run_opts, failed, exceptions,
                   raising, result, history>>

\* A plausible slip: a dependency that is not registered is passed over
\* instead of being resolved.
DepLoopSkipMissing ==
    /\ Running
    /\ Top.pc = "deps"
    /\ IF Top.dep_ix <= Len(DepsOf(Top.name))
       THEN IF DepsOf(Top.name)[Top.dep_ix] \in DOMAIN tasks
            THEN stack' = Append(SetTop([Top EXCEPT !.dep_ix = @ + 1]),
                                 Frame(DepsOf(Top.name)[Top.dep_ix]))
            ELSE stack' = SetTop([Top EXCEPT !.dep_ix = @ + 1])
       ELSE stack' = SetTop([Top EXCEPT !.pc = "try"])
    /\ UNCHANGED <<config, last_call, phase, target, call_opts, run_opts, already_run, failed,
                   exceptions, raising, result, history>>

\* A plausible slip: the dependencies are run from the last listed to the
\* first.
DepLoopReversed ==
    /\ Running
    /\ Top.pc = "deps"
    /\ IF Top.dep_ix <= Len(DepsOf(Top.name))
       THEN stack' = Append(SetTop([Top EXCEPT !.dep_ix = @ + 1]),
                            Frame(DepsOf(Top.name)[Len(DepsOf(Top.name)) + 1 - Top.dep_ix]))
       ELSE stack' = SetTop([Top EXCEPT !.pc = "try"])
    /\ UNCHANGED <<config, last_call, phase, target, call_opts, run_opts, already_run, failed,
                   exceptions, raising, result, history>>

\* Lines 196-201: the next dependency, in listed order, is run recursively;
\* after the last one the activation reaches its try block.
DepLoop ==
    /\ Running
    /\ Top.pc = "deps"
    /\ IF Top.dep_ix <= Len(DepsOf(Top.name))
       THEN stack' = Append(SetTop([Top EXCEPT !.dep_ix = @ + 1]), Frame(DepsOf(Top.name)[Top.dep_ix]))
       ELSE stack' = SetTop([Top EXCEPT !.pc = "try"])
    /\ UNCHANGED <<config, last_call, phase, target, call_opts, run_opts, already_run, failed,
                   exceptions, raising, result, history>>

\* A plausible slip: the checks are made in another order, the failed
\* dependencies first and the lookup last.
PrecheckDepsFirst(name) ==
    LET ds == DepsOf(name)
        failed_deps == Filter(ds, failed)
        not_run_deps == Filter(ds, Range(ds) \ already_run)
    IN  IF failed_deps # <<>>
        THEN <<Err(errCount + 1, "RuntimeError", "Dependencies failed", name, failed_deps, 0)>>
        ELSE IF not_run_deps # <<>>
        THEN <<Err(errCount + 1, "RuntimeError", "Dependencies not run", name, not_run_deps, 0)>>
        ELSE IF name \notin DOMAIN tasks
        THEN <<Err(errCount + 1, "KeyError", "No such task", name, <<>>, 0)>>
        ELSE <<>>

\* Lines 205-223: the checks made before the task's body, in the code's
\* order; <<>> when all pass, else the exception raised.
Precheck(name) ==
    LET ds == DepsOf(name)
        failed_deps == Filter(ds, failed)
        not_run_deps == Filter(ds, Range(ds) \ already_run)
    IN  IF name \notin DOMAIN tasks
        THEN <<Err(errCount + 1, "KeyError", "No such task", name, <<>>, 0)>>
        ELSE IF failed_deps # <<>>
        THEN <<Err(errCount + 1, "RuntimeError", "Dependencies failed", name, failed_deps, 0)>>
        ELSE IF not_run_deps # <<>>
        THEN <<Err(errCount + 1, "RuntimeError", "Dependencies not run", name, not_run_deps, 0)>>
        ELSE <<>>

\* A plausible slip: Task.run merges the wrong way round, the task's opts
\* over the caller's.
TaskOptsSwapped(task, opts) == Or(opts, Some(task.opts))

\* Task.run, line 139: the task's own opts, overridden by the caller's.
TaskOpts(task, opts) == Or(task.opts, Some(opts))

\* Lines 204-224: a failed check goes to the except handler; otherwise
\* Task.run starts with its merged opts.
Try ==
    /\ Running
    /\ Top.pc = "try"
    /\ IF Precheck(Top.name) # <<>>
       THEN /\ stack' = SetTop([Top EXCEPT !.pc = "except", !.err = Precheck(Top.name)])
            /\ errCount' = errCount + 1
            /\ UNCHANGED order
       ELSE /\ stack' = SetTop([Top EXCEPT !.pc = "task", !.act_ix = 1,
                                           !.opts = TaskOpts(tasks[Top.name], run_opts)])
            /\ order' = Append(order, Top.name)
            /\ UNCHANGED errCount
    /\ UNCHANGED <<config, last_call, phase, target, call_opts, run_opts, already_run, failed,
                   exceptions, raising, result, succeeded, log, work, reported>>

\* A plausible slip: dry is read from the action's own opts, not from the
\* merged ones, so a dry run asked for by the caller executes the work.
ActionRunOwnDry(action, opts, outcome) ==
    LET o == Or(action.opts, Some(opts))
        executed == ~Truthy(action.opts.dry)
        workFailed == executed /\ outcome = "fail"
    IN  [opts |-> o,
         executed |-> executed,
         redirected |-> executed /\ Truthy(o.silent),
         ignored |-> workFailed /\ Truthy(o.ignore_err),
         raised |-> workFailed /\ ~Truthy(o.ignore_err)]

\* A plausible slip: ignore_err is read from the caller's opts, not from
\* the merged ones, so the action's own ignore_err is never honoured.
ActionRunCallerIgnore(action, opts, outcome) ==
    LET o == Or(action.opts, Some(opts))
        executed == ~Truthy(o.dry)
        workFailed == executed /\ outcome = "fail"
    IN  [opts |-> o,
         executed |-> executed,
         redirected |-> executed /\ Truthy(o.silent),
         ignored |-> workFailed /\ Truthy(opts.ignore_err),
         raised |-> workFailed /\ ~Truthy(opts.ignore_err)]

\* Action.run, lines 37-63, for a given behaviour of the underlying work:
\* the opts it acts on, whether the work is executed (not dry), whether its
\* output is redirected, and whether a failure is swallowed or raised.
ActionRun(action, opts, outcome) ==
    LET o == Or(action.opts, Some(opts))
        executed == ~Truthy(o.dry)
        workFailed == executed /\ outcome = "fail"
    IN  [opts |-> o,
         executed |-> executed,
         redirected |-> executed /\ Truthy(o.silent),
         ignored |-> workFailed /\ Truthy(o.ignore_err),
         raised |-> workFailed /\ ~Truthy(o.ignore_err)]

\* A plausible slip: Task.run swallows an action's exception and goes on
\* with the next action.
NextInTaskSwallow(frame, r, e) == [frame EXCEPT !.act_ix = @ + 1]

\* Task.run, lines 142-143, after action.run: an exception leaves the loop
\* and Task.run as it is, for the handler of _run; otherwise the loop goes
\* on to the next action.
NextInTask(frame, r, e) ==
    IF r.raised
    THEN [frame EXCEPT !.pc = "except", !.err = <<e>>]
    ELSE [frame EXCEPT !.act_ix = @ + 1]

\* Task.run's loop, lines 142-143: the next action runs with the task's
\* merged opts; an exception leaves the loop and Task.run for the handler of
\* _run; after the last action Task.run returns and _run returns (line 236).
TaskStep ==
    /\ Running
    /\ Top.pc = "task"
    /\ LET t == tasks[Top.name] IN
       IF Top.act_ix > Len(t.actions)
       THEN /\ succeeded' = succeeded \cup {Top.name}
            /\ stack' = Pop
            /\ UNCHANGED <<log, work, errCount>>
       ELSE \E outcome \in Outcomes :
            LET r == ActionRun(t.actions[Top.act_ix], Top.opts, outcome)
                e == Err(errCount + 1, "CalledProcessError", "work failed", Top.name, <<>>, Top.act_ix)
            IN  /\ log' = Append(log, [name |-> t.actions[Top.act_ix].name, opts |-> r.opts,
                                       task |-> Top.name, action |-> Top.act_ix])
                /\ work' = IF r.executed
                           THEN Append(work, [task |-> Top.name, action |-> Top.act_ix,
                                              outcome |-> outcome, redirected |-> r.redirected,
                                              ignored |-> r.ignored])
                           ELSE work
                /\ stack' = SetTop(NextInTask(Top, r, e))
                /\ errCount' = IF r.raised THEN errCount + 1 ELSE errCount
                /\ UNCHANGED succeeded
    /\ UNCHANGED <<config, last_call, phase, target, call_opts, run_opts, already_run, failed,
                   exceptions, raising, result, order, reported>>

\* A plausible slip: the handler never re-raises, as if keep_going were
\* always set.
ExceptNeverRaise ==
    /\ Running
    /\ Top.pc = "except"
    /\ failed' = failed \cup {Top.name}
    /\ exceptions' = exceptions \cup {Top.err[1]}
    /\ reported' = Append(reported, Top.err[1])
    /\ raising' = <<>>
    /\ stack' = Pop
    /\ UNCHANGED <<config, last_call, phase, target, call_opts, run_opts, already_run, result,
                   order, succeeded, log, work, errCount>>

\* A plausible slip: the handler forgets exceptions.add(err).
ExceptNoCollect ==
    /\ Running
    /\ Top.pc = "except"
    /\ failed' = failed \cup {Top.name}
    /\ reported' = Append(reported, Top.err[1])
    /\ raising' = IF ~Truthy(run_opts.keep_going) THEN Top.err ELSE <<>>
    /\ stack' = Pop
    /\ UNCHANGED <<config, last_call, phase, target, call_opts, run_opts, already_run, result,
                   exceptions, order, succeeded, log, work, errCount>>

\* A plausible slip: the handler collects and reports the error but forgets
\* failed.add(name).
ExceptNoFailed ==
    /\ Running
    /\ Top.pc = "except"
    /\ exceptions' = exceptions \cup {Top.err[1]}
    /\ reported' = Append(reported, Top.err[1])
    /\ raising' = IF ~Truthy(run_opts.keep_going) THEN Top.err ELSE <<>>
    /\ stack' = Pop
    /\ UNCHANGED <<config, last_call, phase, target, call_opts, run_opts, already_run, failed,
                   result, order, succeeded, log, work, errCount>>

\* Lines 229-236: the handler records the failure; it re-raises unless
\* keep_going is truthy, and then the activation returns normally.
Except ==
    /\ Running
    /\ Top.pc = "except"
    /\ failed' = failed \cup {Top.name}
    /\ exceptions' = exceptions \cup {Top.err[1]}
    /\ reported' = Append(reported, Top.err[1])
    /\ raising' = IF ~Truthy(run_opts.keep_going) THEN Top.err ELSE <<>>
    /\ stack' = Pop
    /\ UNCHANGED <<config, last_call, phase, target, call_opts, run_opts, already_run, result,
                   order, succeeded, log, work, errCount>>

\* An exception leaving a callee reaches its caller at line 201, outside the
\* try block: the caller's activation ends too.
Propagate ==
    /\ phase = "running"
    /\ raising # <<>>
    /\ stack # <<>>
    /\ stack' = Pop
    /\ UNCHANGED <<config, last_call, phase, target, call_opts, run_opts, already_run, failed,
                   exceptions, raising, result, history>>

\* A plausible slip: Manager.run drops the set _run returns.
RunEndNoAggregate ==
    /\ phase = "running"
    /\ stack = <<>>
    /\ phase' = "done"
    /\ result' = IF raising # <<>>
                 THEN [status |-> "raised", direct |-> raising, args |-> {}, cls |-> raising[1].cls]
                 ELSE [status |-> "returned", direct |-> <<>>, args |-> {}, cls |-> ""]
    /\ UNCHANGED <<config, last_call, target, call_opts, run_opts, stack, already_run, failed,
                   exceptions, raising, history>>

\* Manager.run, lines 174-176, once _run is over: an exception of _run
\* passes through; a non-empty exceptions set is raised as one RuntimeError
\* whose args are the collected exceptions; otherwise run returns None.
RunEnd ==
    /\ phase = "running"
    /\ stack = <<>>
    /\ phase' = "done"
    /\ result' = IF raising # <<>>
                 THEN [status |-> "raised", direct |-> raising, args |-> {}, cls |-> raising[1].cls]
                 ELSE IF exceptions # {}
                 THEN [status |-> "raised", direct |-> <<>>, args |-> exceptions, cls |-> "RuntimeError"]
                 ELSE [status |-> "returned", direct |-> <<>>, args |-> {}, cls |-> ""]
    /\ UNCHANGED <<config, last_call, target, call_opts, run_opts, stack, already_run, failed,
                   exceptions, raising, history>>

\* Control is back with the caller of Manager.run: the call's locals
\* (already_run, failed, exceptions) are gone, the manager is as it was.
Return ==
    /\ phase = "done"
    /\ phase' = "idle"
    /\ ResetSession
    /\ last_call' = NoCall
    /\ UNCHANGED config

\* The same return, to a caller that notes what the run did so as to
\* compare its next run with it.
ReturnNoted ==
    /\ phase = "done"
    /\ phase' = "idle"
    /\ ResetSession
    /\ last_call' = RunCall
    /\ UNCHANGED config

Resolve == Enter \/ DepLoop \/ Try \/ TaskStep \/ Except \/ Propagate \/ RunEnd
Step == Resolve \/ Return

AddPlain == \E name \in Names, task \in PlainTasks, d \in DepsChoices : add(name, task, Some(d))
AddNoDeps == \E name \in Names, task \in PlainTasks : add(name, task, NoneArg)
RunAny == \E name \in Names, o \in CallOptsChoices : run(name, o)

Next == AddPlain \/ AddNoDeps \/ RunAny \/ Step
Spec == Init /\ [][Next]_vars

\* The option-layering runs: small graphs, tasks and options at every layer.
InitLayers ==
    /\ tasks = EmptyDict
    /\ deps = EmptyDict
    /\ self_opts \in LayerManagerOpts
    /\ phase = "idle"
    /\ FreshSession
AddLayered == \E name \in LayerNames, task \in LayerTasks, d \in LayerDeps : add(name, task, Some(d))
RunLayered == \E name \in LayerNames, o \in LayerCallOpts : run(name, o)
NextLayers == AddLayered \/ RunLayered \/ Step
SpecLayers == InitLayers /\ [][NextLayers]_vars

\* The merge runs: one task of one action, alone or with a dependency
\* nobody registered, and every Opts at manager and call.
InitOpts ==
    /\ tasks = EmptyDict
    /\ deps = EmptyDict
    /\ self_opts \in AllOpts
    /\ phase = "idle"
    /\ FreshSession
AddUniform ==
    \E ao \in UniformOpts, o \in UniformOpts, d \in {NoneArg, Some(<<"B">>)} :
        add("A", Task(<<Action("cmd", ao)>>, o), d)
RunAllOpts == \E o \in AllOptsArgs : run("A", o)
NextOpts == AddUniform \/ RunAllOpts \/ Step
SpecOpts == InitOpts /\ [][NextOpts]_vars

\* The repeated runs: the caller notes each finished run and runs again.
InitRuns ==
    /\ tasks = EmptyDict
    /\ deps = EmptyDict
    /\ self_opts \in RunsManagerOpts
    /\ phase = "idle"
    /\ FreshSession
AddRuns == \E name \in LayerNames, task \in RunsTasks, d \in RunsDeps : add(name, task, Some(d))
RunAgain == \E name \in LayerNames, o \in RunsCallOpts : run(name, o)
NextRuns == AddRuns \/ RunAgain \/ Resolve \/ ReturnNoted
SpecRuns == InitRuns /\ [][NextRuns]_vars

\* The runs on a dependency map written directly: two names, registered
\* or not, each with any dependency list or none.
DirectDeps == UNION {[1..n -> LayerNames] : n \in 0..MaxDeps}
AddDirect == \E name \in LayerNames, task \in PlainTasks : add(name, task, NoneArg)
WriteDeps == \E name \in LayerNames, d \in DirectDeps : SetDeps(name, d)
RunDirect == \E name \in LayerNames, o \in CallOptsChoices : run(name, o)
NextDirect == AddDirect \/ WriteDeps \/ RunDirect \/ Step
SpecDirect == Init /\ [][NextDirect]_vars

\* The same runs, with the interpreter never stalling: Manager.run and _run
\* are synchronous code, so a call that has a next step takes it.
FairDirect == SpecDirect /\ WF_vars(Resolve)

(***************************************************************************)
(* Vocabulary of the properties.                                           *)
(***************************************************************************)
\* How often name n occurs in a sequence of names.
RECURSIVE Count(_, _)
Count(s, n) ==
    IF s = <<>> THEN 0 ELSE (IF Head(s) = n THEN 1 ELSE 0) + Count(Tail(s), n)

\* The names reachable from the set S along at most k dependency edges.
RECURSIVE ReachFrom(_, _)
ReachFrom(S, k) ==
    IF k = 0 THEN S
    ELSE ReachFrom(S \cup UNION {Range(DepsOf(x)) : x \in S}, k - 1)

\* The transitive dependency closure of n, n included, and the names n
\* depends on, directly or transitively.
Closure(n) == ReachFrom({n}, Cardinality(Names))
TransDeps(n) == ReachFrom(Range(DepsOf(n)), Cardinality(Names))

\* The names with an activation on the stack.
OnStack == {stack[j].name : j \in DOMAIN stack}
KeepGoing == Truthy(run_opts.keep_going)
InRun == phase \in {"running", "done"}

\* C1: within one Manager.run call no task's body (Task.run) is started
\* more than once, and so no action of a task is run more than once,
\* whatever the dependency graph and the options.
C1_BodyAtMostOnce ==
    InRun =>
        /\ \A n \in Names : Count(order, n) <= 1
        /\ \A j, k \in DOMAIN log :
              (log[j].task = log[k].task /\ log[j].action = log[k].action) => j = k

\* C1's case: a name whose body has already run is requested again, through
\* a second path or a repeated entry, and is about to be skipped.
C1_Witness ==
    /\ Running
    /\ Top.pc = "enter"
    /\ Top.name \in Range(order)
    /\ Top.name \in succeeded
    /\ Len(stack) >= 2

\* C2: whenever a task itself is attempted, each of its declared
\* dependencies has completed its own attempt (its Task.run returned, or it
\* is recorded in failed).  Stated here for its weakest case: a body that has
\* started, and the dependencies other than the task itself.
C2_DepsCompleteBeforeBody ==
    \A j \in DOMAIN stack :
        stack[j].pc = "task" =>
            \A d \in Range(DepsOf(stack[j].name)) \ {stack[j].name} :
                d \in succeeded \cup failed

\* C3: if Manager.run(target) returns normally, every name of target's
\* transitive dependency closure is registered and had its body executed
\* exactly once, and no body outside the closure was executed.
C3_NormalReturnRunsClosureOnce ==
    (phase = "done" /\ result.status = "returned") =>
        /\ \A n \in Closure(target) : n \in DOMAIN tasks /\ Count(order, n) = 1
        /\ Range(order) \subseteq Closure(target)

\* C3's case: a run over a closure of three names, one of them reachable
\* along two paths, has returned normally.
C3_Witness ==
    /\ phase = "done"
    /\ result.status = "returned"
    /\ Closure(target) = Names
    /\ \E n \in Names \ {target} :
          /\ n \in Range(DepsOf(target))
          /\ \E m \in Names \ {target, n} : m \in Range(DepsOf(target)) /\ n \in Range(DepsOf(m))

\* C4: with keep_going false or unset the first failure aborts the whole
\* call: exactly one name is in failed, exactly one error is collected and
\* reported, Manager.run raises that very error, and no task depending on
\* the failing task (other than that task) has had its body executed.
C4_FailFastAbortsAll ==
    (InRun /\ ~KeepGoing /\ failed # {}) =>
        /\ Cardinality(failed) = 1
        /\ Cardinality(exceptions) = 1
        /\ Len(reported) = 1
        /\ exceptions = Range(reported)
        /\ (phase = "done" => result.status = "raised" /\ result.direct = reported)
        /\ \A f \in failed : \A n \in Range(order) \ {f} : f \notin TransDeps(n)

\* C5: with keep_going true every name reachable from the target is
\* attempted, and a body is executed only if the task is registered and no
\* other task among its direct or transitive dependencies ended in failed.
C5_KeepGoingRunsOnlyUnblocked ==
    (phase = "done" /\ KeepGoing) =>
        /\ Closure(target) \subseteq already_run
        /\ \A n \in Range(order) :
              n \in DOMAIN tasks /\ (TransDeps(n) \ {n}) \cap failed = {}

\* C6: with keep_going true Manager.run raises at the end exactly when some
\* name failed, and what it raises wraps exactly the collected errors, one
\* per failed name: the lookup error of a missing task, the action's error
\* of a task whose body failed, a dependency error naming the failed direct
\* dependencies of a blocked task.  For a depending on b and c, b's body
\* failing and c succeeding, it wraps b's error and a's dependency error
\* and nothing else, and c's work has been executed.
C6_AggregateIsCollectedErrors ==
    (phase = "done" /\ KeepGoing) =>
        /\ (result.status = "raised") <=> (failed # {})
        /\ (result.status = "returned") <=> (failed = {})
        /\ result.direct = <<>>
        /\ result.args = exceptions
        /\ \A n \in failed : Cardinality({e \in result.args : e.task = n}) = 1
        /\ \A e \in result.args :
              /\ e.task \in failed
              /\ IF e.task \notin DOMAIN tasks THEN e.msg = "No such task"
                 ELSE IF e.task \in Range(order) THEN e.msg = "work failed"
                 ELSE /\ e.msg = "Dependencies failed"
                      /\ e.deps # <<>>
                      /\ Range(e.deps) \subseteq failed \cap Range(DepsOf(e.task))
        /\ \A a, b, c \in Names :
              ( /\ Cardinality({a, b, c}) = 3
                /\ target = a
                /\ a \in DOMAIN tasks
                /\ Range(DepsOf(a)) = {b, c}
                /\ DepsOf(b) = <<>> /\ DepsOf(c) = <<>>
                /\ b \in Range(order) /\ b \in failed /\ c \notin failed )
              => /\ Cardinality(result.args) = 2
                 /\ \E e \in result.args : e.task = b /\ e.msg = "work failed"
                 /\ \E e \in result.args :
                       e.task = a /\ e.msg = "Dependencies failed" /\ Range(e.deps) = {b}
                 /\ c \in succeeded
                 /\ \E j \in DOMAIN work : work[j].task = c

\* C6's case: A depends on B and C, B's body failed, C succeeded, and the
\* keep-going run has ended.
C6_Witness ==
    /\ phase = "done"
    /\ KeepGoing
    /\ target = "A"
    /\ DepsOf("A") = <<"B", "C">>
    /\ DepsOf("B") = <<>> /\ DepsOf("C") = <<>>
    /\ "B" \in Range(order) /\ "B" \in failed
    /\ "C" \in succeeded
    /\ "A" \in failed
    /\ result.status = "raised"

\* The dependency graph has no cycle (no name depends on itself, directly or
\* transitively).
Acyclic == \A n \in Names : n \notin TransDeps(n)

\* C2, C4 and C5 away from dependency cycles: on an acyclic graph every
\* dependency of an attempted task has completed its attempt, a fail-fast
\* run leaves no executed dependent of the failing task, and a keep-going
\* run executes exactly the registered tasks with no failed dependency.
C2_OnAcyclic ==
    Acyclic =>
        \A j \in DOMAIN stack :
            stack[j].pc \in {"try", "task", "except"} =>
                \A d \in Range(DepsOf(stack[j].name)) : d \in succeeded \cup failed
C4_OnAcyclic ==
    (Acyclic /\ InRun /\ ~KeepGoing /\ failed # {}) =>
        /\ Cardinality(failed) = 1
        /\ exceptions = Range(reported) /\ Len(reported) = 1
        /\ (phase = "done" => result.status = "raised" /\ result.direct = reported)
        /\ \A f \in failed : \A n \in Range(order) : f \notin TransDeps(n)
C5_OnAcyclic ==
    (Acyclic /\ phase = "done" /\ KeepGoing) =>
        /\ Closure(target) \subseteq already_run
        /\ \A n \in Closure(target) :
              n \in Range(order) <=> (n \in DOMAIN tasks /\ TransDeps(n) \cap failed = {})

(***************************************************************************)
(* Options and actions.                                                    *)
(***************************************************************************)
\* The underlying work of action a of task t was executed with this outcome.
Worked(t, a, outcome) ==
    \E j \in DOMAIN work :
        work[j].task = t /\ work[j].action = a /\ work[j].outcome = outcome

\* The work of action a of task t failed, and the merged opts Action.run
\* acted on had ignore_err true (IgnoredFailure) or not (RaisedFailure).
IgnoredFailure(t, a) ==
    /\ Worked(t, a, "fail")
    /\ \E j \in DOMAIN log :
          log[j].task = t /\ log[j].action = a /\ Truthy(log[j].opts.ignore_err)
RaisedFailure(t, a) ==
    /\ Worked(t, a, "fail")
    /\ \E j \in DOMAIN log :
          log[j].task = t /\ log[j].action = a /\ ~Truthy(log[j].opts.ignore_err)

\* Every exception alive in the run: collected, propagating, or on its way
\* to a handler.
AllErrors ==
    exceptions \cup Range(raising) \cup UNION {Range(stack[j].err) : j \in DOMAIN stack}

\* The Action.run calls logged for task t.
LoggedOf(t) == {j \in DOMAIN log : log[j].task = t}

\* C7: when an action's work fails and the merged ignore_err is true,
\* Action.run returns normally: no exception exists for it, Task.run goes on
\* to the next action, and a task all of whose failures were ignored runs
\* all its actions, returns successfully, is not in failed, has no error
\* collected, is named by no dependency error, and every attempted task
\* depending on it (with no failed dependency) has its body executed, with
\* keep_going or without.
C7_IgnoredFailureIsNoFailure ==
    \A t \in DOMAIN tasks : \A a \in DOMAIN tasks[t].actions :
        IgnoredFailure(t, a) =>
            /\ \A e \in AllErrors : ~(e.task = t /\ e.action = a)
            /\ \A j \in DOMAIN stack :
                  (stack[j].name = t /\ stack[j].pc = "task") => stack[j].act_ix > a
            /\ ( /\ t \notin OnStack
                 /\ \A b \in DOMAIN tasks[t].actions : ~RaisedFailure(t, b) )
               => /\ t \in succeeded
                  /\ t \notin failed
                  /\ Cardinality(LoggedOf(t)) = Len(tasks[t].actions)
                  /\ \A e \in AllErrors : e.task # t /\ t \notin Range(e.deps)
                  /\ \A n \in DOMAIN tasks :
                        ( /\ phase = "done"
                          /\ KeepGoing \/ failed = {}
                          /\ n \in Closure(target)
                          /\ t \in Range(DepsOf(n))
                          /\ Range(DepsOf(n)) \cap failed = {} )
                        => n \in Range(order)

\* C7's case: without keep_going, the first of B's two actions failed and
\* was ignored, B ran its second action and succeeded, and A, which depends
\* on B, was executed; the run returned normally.
C7_Witness ==
    /\ phase = "done"
    /\ ~KeepGoing
    /\ target = "A"
    /\ DepsOf("A") = <<"B">>
    /\ "B" \in DOMAIN tasks /\ Len(tasks["B"].actions) = 2
    /\ IgnoredFailure("B", 1)
    /\ Worked("B", 2, "ok")
    /\ "B" \in succeeded
    /\ order = <<"B", "A">>
    /\ result.status = "returned"

\* The value of field f at the call site (unset when run got no opts).
CallField(f) == IF call_opts = NoneArg THEN Unset ELSE call_opts[1][f]
\* The first set value of four layers, highest precedence first.
Layered(l1, l2, l3, l4) ==
    IF l1 # Unset THEN l1 ELSE IF l2 # Unset THEN l2 ELSE IF l3 # Unset THEN l3 ELSE l4

\* C8 as claimed: for each field the value an Action acts on is that of the
\* highest layer that sets it, in the order call site > task > manager >
\* action.
C8_PrecedenceCallTaskManagerAction ==
    \A j \in DOMAIN log : \A f \in OptsFields :
        log[j].opts[f] =
            Layered(CallField(f), tasks[log[j].task].opts[f], self_opts[f],
                    tasks[log[j].task].actions[log[j].action].opts[f])

\* C8 as amended: for each field the value an Action acts on is that of the
\* highest layer that sets it, in the order call site > manager > task >
\* action (unset if no layer sets it).
C8_PrecedenceCallManagerTaskAction ==
    \A j \in DOMAIN log : \A f \in OptsFields :
        log[j].opts[f] =
            Layered(CallField(f), self_opts[f], tasks[log[j].task].opts[f],
                    tasks[log[j].task].actions[log[j].action].opts[f])

\* C8's case: manager and task both set a field, to different values, the
\* call leaves it unset, and an action has run.
C8_Witness ==
    /\ log # <<>>
    /\ CallField("silent") = Unset
    /\ self_opts.silent = "True"
    /\ tasks[log[1].task].opts.silent = "False"
    /\ log[1].opts.silent = "True"

\* C9: base | override is an Opts whose every field is the override's when
\* the override sets it (True or False) and the base's otherwise; base | None
\* equals base; the base is not changed by the merge.  Manager.run merges
\* the call's opts over the manager's (line 171).
C9_MergeTakesSetFieldsOfOverride ==
    [][ (phase = "idle" /\ phase' = "running") =>
          /\ DOMAIN run_opts' = OptsFields
          /\ \A f \in OptsFields :
                run_opts'[f] = IF call_opts' # NoneArg /\ call_opts'[1][f] \in {"True", "False"}
                               THEN call_opts'[1][f]
                               ELSE self_opts[f]
          /\ call_opts' = NoneArg => run_opts' = self_opts
          /\ self_opts' = self_opts ]_vars

\* C9's case: a merge in which the override sets one field to False over a
\* True, leaves another unset over a True, and sets a third the base lacks.
C9_Witness ==
    /\ phase = "running"
    /\ call_opts # NoneArg
    /\ self_opts.dry = "True" /\ call_opts[1].dry = "False" /\ run_opts.dry = "False"
    /\ self_opts.silent = "True" /\ call_opts[1].silent = Unset /\ run_opts.silent = "True"
    /\ self_opts.keep_going = Unset /\ call_opts[1].keep_going = "True"
    /\ run_opts.keep_going = "True"

\* C10: Task.run starts its actions in declaration order, one after the
\* other; the first action whose run raises ends the Task: no later action
\* of the task is started, Task.run has not returned normally, and the
\* action's own exception is the one that reaches the caller of Task.run.
C10_ActionsInOrderUntilFailure ==
    /\ \A j \in DOMAIN log :
          /\ log[j].action \in DOMAIN tasks[log[j].task].actions
          /\ log[j].action = 1 + Cardinality({k \in 1..(j - 1) : log[k].task = log[j].task})
          /\ \A k \in j..Len(log) :
                log[k].task = log[j].task => \A m \in j..k : log[m].task = log[j].task
    /\ \A t \in succeeded : Cardinality(LoggedOf(t)) = Len(tasks[t].actions)
    /\ \A t \in DOMAIN tasks : \A a \in DOMAIN tasks[t].actions :
          RaisedFailure(t, a) =>
              /\ \A j \in LoggedOf(t) : log[j].action <= a
              /\ \A j \in DOMAIN stack : stack[j].name = t => stack[j].pc # "task"
              /\ t \notin succeeded
              /\ \E e \in AllErrors :
                    /\ e.task = t /\ e.action = a
                    /\ e.cls = "CalledProcessError" /\ e.msg = "work failed"
                    /\ \A e2 \in AllErrors : e2.task = t => e2 = e

\* C10's case: a task of two actions whose first action raised: the task
\* ended there and the exception is with the handler of _run.
C10_Witness ==
    /\ Running
    /\ Top.pc = "except"
    /\ Top.name \in DOMAIN tasks
    /\ Len(tasks[Top.name].actions) = 2
    /\ RaisedFailure(Top.name, 1)
    /\ Top.err[1].action = 1

(***************************************************************************)
(* Repeated runs.                                                          *)
(***************************************************************************)
\* Field f of an optional Opts argument (unset when the argument is None).
ArgField(o, f) == IF o = NoneArg THEN Unset ELSE o[1][f]
\* The call asked for a dry run.
CallDry(o) == ArgField(o, "dry") = "True"
\* Two call arguments that agree on every option but dry.
SameButDry(o1, o2) == \A f \in OptsFields \ {"dry"} : ArgField(o1, f) = ArgField(o2, f)
\* The descriptions a run reported, in order: which action of which task.
Described(l) == [j \in DOMAIN l |-> <<l[j].task, l[j].action, l[j].name>>]
\* No executed work failed without being ignored.
CleanWork(w) == \A j \in DOMAIN w : w[j].outcome = "fail" => w[j].ignored
\* The finished run and the one noted before it are runs of the same target
\* with equal options, the first of the two arguments asking for a dry run
\* and the second not.
DryAndNot(dryArg, otherArg) ==
    /\ phase = "done"
    /\ last_call.op = "run"
    /\ last_call.target = target
    /\ CallDry(dryArg) /\ ~CallDry(otherArg)
    /\ SameButDry(dryArg, otherArg)

\* C11 as claimed: a run with dry=True at the call executes no action's
\* work, and the descriptions it reports are exactly those a non-dry run of
\* the same target with otherwise equal options reports.
C11_DryReportsWhatAnyRunReports ==
    /\ (InRun /\ CallDry(call_opts)) => work = <<>>
    /\ DryAndNot(call_opts, last_call.call_opts) => Described(log) = Described(last_call.log)
    /\ DryAndNot(last_call.call_opts, call_opts) => Described(log) = Described(last_call.log)

\* C11 as amended: a run with dry=True at the call executes no action's
\* work, and the descriptions it reports are exactly those reported by a
\* non-dry run of the same target with otherwise equal options in which no
\* action's work fails without being ignored.
C11_DryReportsWhatCleanRunReports ==
    /\ (InRun /\ CallDry(call_opts)) => work = <<>>
    /\ (DryAndNot(call_opts, last_call.call_opts) /\ CleanWork(last_call.work))
          => Described(log) = Described(last_call.log)
    /\ (DryAndNot(last_call.call_opts, call_opts) /\ CleanWork(work))
          => Described(log) = Described(last_call.log)

\* C11's case: A depends on B, both set dry=False themselves; the dry run
\* of A reported both and executed nothing, and the run after it, not dry,
\* executed both without failure.
C11_Witness ==
    /\ DryAndNot(last_call.call_opts, call_opts)
    /\ target = "A"
    /\ DepsOf("A") = <<"B">>
    /\ {"A", "B"} \subseteq DOMAIN tasks
    /\ tasks["A"].opts.dry = "False" /\ tasks["B"].opts.dry = "False"
    /\ last_call.work = <<>>
    /\ Len(last_call.log) = 2
    /\ Len(work) = 2
    /\ CleanWork(work)

(***************************************************************************)
(* Missing tasks.                                                          *)
(***************************************************************************)
\* The lookup failure of the requested name.
IsLookupFailure(e) == e.cls = "KeyError" /\ e.msg = "No such task" /\ e.task = target

\* What holds of any run on a name absent from the registry: no body is
\* executed and no other name gets into already_run or failed.
MissingTargetTouchesNothing ==
    /\ order = <<>> /\ log = <<>> /\ work = <<>>
    /\ already_run \subseteq {target}
    /\ failed \subseteq {target}

\* C12 as claimed: for keep_going true, false or unset, Manager.run on a
\* name absent from the registry raises a lookup failure, executes no task
\* body and adds no name other than the requested one to already_run or
\* failed.
C12_MissingTargetRaisesLookup ==
    (InRun /\ target \notin DOMAIN tasks) =>
        /\ MissingTargetTouchesNothing
        /\ phase = "done" =>
              /\ result.status = "raised"
              /\ Len(result.direct) = 1
              /\ IsLookupFailure(result.direct[1])

\* C12 as amended: Manager.run on a name absent from the registry and
\* without dependencies of its own executes no task body, adds no name other
\* than the requested one to already_run or failed, and raises the lookup
\* failure itself when keep_going is false or unset, and the aggregate
\* wrapping the lookup failure and nothing else when keep_going is true.
C12_MissingTargetRaisesLookupOrAggregate ==
    (InRun /\ target \notin DOMAIN tasks /\ DepsOf(target) = <<>>) =>
        /\ MissingTargetTouchesNothing
        /\ phase = "done" =>
              /\ result.status = "raised"
              /\ \E e \in exceptions :
                    /\ IsLookupFailure(e)
                    /\ exceptions = {e}
                    /\ IF KeepGoing
                       THEN result.direct = <<>> /\ result.args = {e}
                       ELSE result.direct = <<e>> /\ result.args = {}

\* C12's case: a run on an unregistered name has ended, on a manager that
\* has other tasks registered, with keep_going set.
C12_Witness ==
    /\ phase = "done"
    /\ target \notin DOMAIN tasks
    /\ DepsOf(target) = <<>>
    /\ DOMAIN tasks # {}
    /\ KeepGoing
    /\ already_run = {target}
    /\ failed = {target}

(***************************************************************************)
(* One session per run.                                                    *)
(***************************************************************************)
\* Everything the sets of _run hold was put there by the call in progress:
\* names it entered, names whose handler it ran, errors it built.
OwnSession ==
    /\ already_run \subseteq Closure(target)
    /\ Range(order) \subseteq already_run
    /\ failed = {reported[j].task : j \in DOMAIN reported}
    /\ exceptions = Range(reported)

\* C13: every Manager.run call starts with empty already_run, failed and
\* exceptions; what they hold during the call comes from this call alone; a
\* call that returns normally has executed every task of its closure, also
\* those an earlier call executed or saw fail; what it raises holds only
\* errors of its own; and a call with the same target, options and outcomes
\* of the work as the call before it ends exactly as that one did.
C13_EachRunStartsFresh ==
    /\ (Running /\ stack = <<Frame(target)>>) =>
          already_run = {} /\ failed = {} /\ exceptions = {}
    /\ InRun => OwnSession
    /\ (phase = "done" /\ last_call.op = "run") =>
          /\ result.args \cup Range(result.direct) \subseteq Range(reported)
          /\ result.status = "returned" => Closure(target) \subseteq Range(order)
          /\ (result.status = "returned") <=> (reported = <<>>)
          /\ ( /\ last_call.target = target
               /\ last_call.call_opts = call_opts
               /\ last_call.work = work )
             => /\ last_call.result = result
                /\ last_call.order = order
                /\ last_call.log = log
                /\ last_call.already_run = already_run
                /\ last_call.failed = failed
                /\ last_call.exceptions = exceptions

\* C13's case: the call before failed at a task; the same call made again
\* executed that task again, this time without failure, and returned.
C13_Witness ==
    /\ phase = "done"
    /\ last_call.op = "run"
    /\ last_call.target = target
    /\ last_call.call_opts = call_opts
    /\ last_call.result.status = "raised"
    /\ \E n \in last_call.failed : n \in Range(last_call.order) /\ n \in succeeded
    /\ Cardinality(Closure(target)) = 2
    /\ result.status = "returned"

(***************************************************************************)
(* Error classes.                                                          *)
(***************************************************************************)
\* Every exception of the run, those Manager.run raised included.
SurfacedErrors == AllErrors \cup result.args \cup Range(result.direct)

\* C14: every error Manager.run collects or raises follows the taxonomy:
\* an unignored failure of an action's work is an ActionError, a task
\* blocked by a failed or unresolved dependency gets a DependencyError, and
\* the keep-going aggregate is a FateError.
C14_ErrorsFollowTaxonomy ==
    /\ \A e \in SurfacedErrors :
          /\ e.msg = "work failed" => e.cls = "ActionError"
          /\ e.msg \in {"Dependencies failed", "Dependencies not run"} => e.cls = "DependencyError"
    /\ (phase = "done" /\ result.status = "raised" /\ result.direct = <<>>) =>
          result.cls = "FateError"

(***************************************************************************)
(* Registration.                                                           *)
(***************************************************************************)
\* Name m has the same entry (or none) in dict d1 as in dict d2.
SameEntry(d1, d2, m) ==
    /\ (m \in DOMAIN d1) <=> (m \in DOMAIN d2)
    /\ m \in DOMAIN d1 => d1[m] = d2[m]

\* C15: each Manager.add leaves the task and the dependency list it was
\* given registered for its name (the empty list when deps was omitted),
\* leaves the entries of every other name and the manager's opts as they
\* were, and raises nothing, whether or not the dependency names are
\* registered; nothing but add changes the registry.  So after any sequence
\* of adds each name has what its most recent add gave it.
C15_AddLastWriteWins ==
    [][ /\ (phase = "idle" /\ phase' = "idle" /\ last_call'.op = "add") =>
              LET n == last_call'.name IN
              /\ n \in DOMAIN tasks' /\ tasks'[n] = last_call'.task
              /\ n \in DOMAIN deps'
              /\ deps'[n] = IF last_call'.deps = NoneArg THEN <<>> ELSE last_call'.deps[1]
              /\ \A m \in Names \ {n} : SameEntry(tasks', tasks, m) /\ SameEntry(deps', deps, m)
              /\ DOMAIN tasks' \subseteq Names /\ DOMAIN deps' \subseteq Names
              /\ self_opts' = self_opts
              /\ result' = NoResult
        /\ (phase # "idle" \/ phase' # "idle") => config' = config ]_vars

\* C15's case: the latest add gave its name no deps and the name's list is
\* empty, while another name keeps its own list, which names that name and
\* a name that was never registered.
C15_Witness ==
    /\ phase = "idle"
    /\ last_call.op = "add"
    /\ last_call.deps = NoneArg
    /\ deps[last_call.name] = <<>>
    /\ \E m \in DOMAIN deps \ {last_call.name} :
          /\ last_call.name \in Range(deps[m])
          /\ \E d \in Range(deps[m]) : d \notin DOMAIN tasks

(***************************************************************************)
(* The checks before a task's body.                                        *)
(***************************************************************************)
\* The direct dependencies of name that are in failed, in declared order.
FailedDeps(name) == Filter(DepsOf(name), failed)
\* The activations whose checks have just raised (action 0: not an action's
\* error), and those whose checks have passed.
Refused == {j \in DOMAIN stack : stack[j].pc = "except" /\ stack[j].err[1].action = 0}
Admitted == {j \in DOMAIN stack : stack[j].pc = "task"}

\* C16 as claimed: the failed-dependency check takes precedence over the
\* lookup: a name with a direct dependency in failed always gets the
\* dependency error naming exactly its failed direct dependencies, also
\* when it is missing from the registry; the lookup failure is raised only
\* when no dependency failed.
C16_FailedDepsBeforeLookup ==
    /\ \A j \in Admitted : FailedDeps(stack[j].name) = <<>>
    /\ \A j \in Refused :
          LET e == stack[j].err[1] IN
          /\ FailedDeps(stack[j].name) # <<>> =>
                e.msg = "Dependencies failed" /\ e.deps = FailedDeps(stack[j].name)
          /\ e.msg = "No such task" =>
                stack[j].name \notin DOMAIN tasks /\ FailedDeps(stack[j].name) = <<>>

\* C16 as amended: the lookup takes precedence over the failed-dependency
\* check: a name missing from the registry always gets the lookup failure,
\* also when a direct dependency of it is in failed; a registered name with
\* a direct dependency in failed always gets the dependency error naming
\* exactly its failed direct dependencies, and never runs its body.
C16_LookupBeforeFailedDeps ==
    /\ \A j \in Admitted :
          stack[j].name \in DOMAIN tasks /\ FailedDeps(stack[j].name) = <<>>
    /\ \A j \in Refused :
          LET e == stack[j].err[1] IN
          IF stack[j].name \notin DOMAIN tasks
          THEN e.msg = "No such task" /\ e.cls = "KeyError" /\ e.deps = <<>>
          ELSE /\ e.msg = "Dependencies failed"
               /\ e.deps # <<>>
               /\ e.deps = FailedDeps(stack[j].name)

\* C16's case: the checks of a name that is not registered and has a failed
\* direct dependency have raised the lookup failure.
C16_Witness ==
    /\ Running
    /\ Top.pc = "except"
    /\ Top.name \notin DOMAIN tasks
    /\ FailedDeps(Top.name) # <<>>
    /\ Top.err[1].msg = "No such task"

(***************************************************************************)
(* Order of execution.                                                     *)
(***************************************************************************)
\* Depth-first post-order: Visit(n, seen) lists n after the names of its
\* dependencies, taken in declared order, skipping the names in seen, and
\* gives the names seen afterwards; VisitAll does so for a list of names.
RECURSIVE Visit(_, _)
RECURSIVE VisitAll(_, _)
Visit(n, seen) ==
    IF n \in seen
    THEN [seen |-> seen, out |-> <<>>]
    ELSE LET r == VisitAll(DepsOf(n), seen \cup {n})
         IN  [seen |-> r.seen, out |-> Append(r.out, n)]
VisitAll(ds, seen) ==
    IF ds = <<>>
    THEN [seen |-> seen, out |-> <<>>]
    ELSE LET first == Visit(Head(ds), seen)
             rest == VisitAll(Tail(ds), first.seen)
         IN  [seen |-> rest.seen, out |-> first.out \o rest.out]
PostOrder(n) == Visit(n, {}).out
IsPrefix(s, t) == Len(s) <= Len(t) /\ SubSeq(t, 1, Len(s)) = s

\* C17: on an acyclic dependency graph, as long as no failure has occurred
\* the bodies executed so far are a prefix of the depth-first post-order
\* from the target (dependencies in declared order, visited names skipped),
\* and a run that ends without failure has executed exactly that sequence.
C17_BodiesInPostOrder ==
    (InRun /\ Acyclic /\ reported = <<>> /\ \A j \in DOMAIN stack : stack[j].pc # "except") =>
        /\ IsPrefix(order, PostOrder(target))
        /\ phase = "done" => result.status = "returned" /\ order = PostOrder(target)

\* C17's case: a run without failure over three names has ended; the target
\* lists two different dependencies, and they ran in the order listed, which
\* is not the order of their names.
C17_Witness ==
    /\ phase = "done"
    /\ result.status = "returned"
    /\ Acyclic
    /\ target = "A"
    /\ DepsOf("A") = <<"C", "B">>
    /\ order = <<"C", "B", "A">>

(***************************************************************************)
(* The defensive check.                                                    *)
(***************************************************************************)
\* C18: whenever the checks of a name are evaluated, every declared
\* dependency of the name is in already_run, so the 'Dependencies not run'
\* error is never raised, on any graph (cycles, unregistered names) and for
\* either keep_going.
C18_DepsNotRunUnreachable ==
    /\ \A j \in DOMAIN stack :
          stack[j].pc = "try" => Range(DepsOf(stack[j].name)) \subseteq already_run
    /\ \A e \in SurfacedErrors \cup Range(reported) : e.msg # "Dependencies not run"

\* C18's case: the checks of a task are about to be evaluated, one of its
\* dependencies being an unregistered name and another a name whose own
\* resolution is still in progress further up the stack.
C18_Witness ==
    /\ Running
    /\ Top.pc = "try"
    /\ \E d \in Range(DepsOf(Top.name)) : d \notin DOMAIN tasks
    /\ \E d \in Range(DepsOf(Top.name)) :
          \E j \in 1..(Len(stack) - 1) : stack[j].name = d /\ d # Top.name

(***************************************************************************)
(* The failed set and the collected errors.                                *)
(***************************************************************************)
\* C20: throughout a Manager.run call, failed is a subset of already_run,
\* the handler adds each name to failed at most once, and the collected
\* errors correspond one to one to the names in failed: every failed name
\* has exactly one collected error and every collected error belongs to a
\* failed name.
C20_FailedMatchesErrors ==
    InRun =>
        /\ failed \subseteq already_run
        /\ \A j, k \in DOMAIN reported : reported[j].task = reported[k].task => j = k
        /\ Cardinality(exceptions) = Cardinality(failed)
        /\ \A n \in failed : Cardinality({e \in exceptions : e.task = n}) = 1
        /\ \A e \in exceptions : e.task \in failed

\* C20's case: a keep-going run in which a task failed in its own work and
\* a task depending on it was refused, so two names are in failed and two
\* errors are collected.
C20_Witness ==
    /\ InRun
    /\ KeepGoing
    /\ Cardinality(failed) >= 2
    /\ \E e1, e2 \in exceptions :
          /\ e1.msg = "work failed"
          /\ e2.msg = "Dependencies failed"
          /\ e1.task \in Range(e2.deps)

(***************************************************************************)
(* Termination.                                                            *)
(***************************************************************************)
\* The names reachable from the target of the run, the target included.
Reachable == Closure(target)

\* A step in which a _run invocation passes the already_run check.
PassesCheck ==
    /\ Running
    /\ Top.pc = "enter"
    /\ Len(stack') = Len(stack)
    /\ stack'[Len(stack)].pc = "deps"

\* Every invocation that passes the check puts a new name in already_run,
\* and already_run holds reachable names only: the invocations that pass
\* are at most as many as the reachable names.
PassesWithinReachable ==
    /\ [](InRun => already_run \subseteq Reachable)
    /\ [][PassesCheck => /\ Top.name \notin already_run
                         /\ already_run' = already_run \cup {Top.name}]_vars

\* A started Manager.run call ends.
RunTerminates == (phase = "running") ~> (phase = "done")

\* C19 as stated: Manager.run terminates on every graph, self-dependencies
\* and cycles included; the invocations of _run that pass the already_run
\* check are at most as many as the names reachable from the target, and
\* the recursion is never deeper than that number.
C19_TerminatesWithinReachableDepth ==
    /\ RunTerminates
    /\ PassesWithinReachable
    /\ [](InRun => Len(stack) <= Cardinality(Reachable))

\* C19 as the code has it: the same, the recursion being never deeper than
\* that number plus one, the innermost invocation possibly being one that
\* returns at the already_run check.
C19_TerminatesWithinReachableDepthPlusOne ==
    /\ RunTerminates
    /\ PassesWithinReachable
    /\ [](InRun => /\ Len(stack) <= Cardinality(Reachable) + 1
                   /\ Cardinality({j \in DOMAIN stack : stack[j].pc # "enter"})
                          <= Cardinality(Reachable)
                   /\ \A j \in 1..(Len(stack) - 1) : stack[j].pc # "enter")

\* C19's case: a run has ended on a graph in which both names list
\* themselves and each other.
C19_Witness ==
    /\ phase = "done"
    /\ target = "A"
    /\ {"A", "B"} \subseteq DOMAIN tasks
    /\ DepsOf("A") = <<"A", "B">>
    /\ DepsOf("B") = <<"B", "A">>
    /\ already_run = {"A", "B"}

====
